---- MODULE Spec2Model ----
\* git-instafix: fold the staged (or working-tree) changes into an ancestor
\* commit and replay the descendants, retargeting the branches on the way.
\*
\* The repository is modelled at file granularity: a tree maps every file to
\* a content value (0 = the file is absent), a commit is a record of parents,
\* tree and message, and commit identities are positions in the object store
\* in creation order (so a larger identity is a newer commit).  The git
\* primitives consumed by the program (diff, apply, three-way merge, rebase
\* init/next/commit/finish/abort, reset, stash) are modelled by what they do
\* to refs, HEAD, index and working tree; a primitive that fails has no effect.
EXTENDS Integers, Sequences, FiniteSets, TLC

\* ------------------------------------------------------------------ bounds
MaxHist == 4
MaxWalk == 4

\* ---------------------------------------------------------------- universe
Files == {"f", "g"}
Vals == {0, 1}
\* a local branch whose name is not valid UTF-8
NotUtf8 == "caf\\xe9"
Branches == {"main", "master", "develop", "trunk", "changes", "topic", "twin", NotUtf8}
NoRef == 0
BadRef == -1
Tree == [Files -> Vals]
EmptyTree == [h \in Files |-> 0]

Min(a, b) == IF a < b THEN a ELSE b

\* ------------------------------------------------------------ object graph
TreeOf(cs, c) == IF c = 0 THEN EmptyTree ELSE cs[c].tree

RECURSIVE Reach(_, _)
Reach(cs, c) ==
  {c} \cup UNION {Reach(cs, cs[c].parents[i]) : i \in DOMAIN cs[c].parents}

RECURSIVE SortDesc(_)
SortDesc(S) ==
  IF S = {} THEN <<>>
  ELSE LET m == CHOOSE x \in S : \A y \in S : y <= x
       IN <<m>> \o SortDesc(S \ {m})

Reverse(s) == [i \in 1..Len(s) |-> s[Len(s) + 1 - i]]

\* variant of revwalk that starts below the head
revwalk_parents(cs, h) == Tail(SortDesc(Reach(cs, h)))

\* Revwalk::push_head + default sorting: everything reachable, newest first.
revwalk(cs, h) == SortDesc(Reach(cs, h))

\* variant of take_while_ne that never stops at x
take_while_all(s, x) == s

RECURSIVE take_while_ne(_, _)
take_while_ne(s, x) ==
  IF s = <<>> \/ Head(s) = x THEN <<>>
  ELSE <<Head(s)>> \o take_while_ne(Tail(s), x)

\* variant of take that yields nothing once the count is reached
take_or_nothing(s, n) == IF Len(s) >= n THEN <<>> ELSE s

take(s, n) == SubSeq(s, 1, Min(n, Len(s)))

\* variant of merge_base that answers the second commit itself
merge_base_is_other(cs, a, b) == b

merge_base(cs, a, b) ==
  LET common == Reach(cs, a) \cap Reach(cs, b)
  IN IF common = {} THEN 0 ELSE CHOOSE x \in common : \A y \in common : y <= x

first_parent_of(cs, c) ==
  IF cs[c].parents = <<>> THEN 0 ELSE cs[c].parents[1]

\* ------------------------------------------------------------------- trees
DiffTrees(a, b) ==
  {[file |-> h, old |-> a[h], new |-> b[h]] : h \in {x \in Files : a[x] # b[x]}}

\* Repository::diff_index_to_workdir with default options: untracked files
\* (absent from the index) are not reported.
diff_index_to_workdir(idx, wd) ==
  {[file |-> h, old |-> idx[h], new |-> wd[h]] :
     h \in {x \in Files : idx[x] # 0 /\ wd[x] # idx[x]}}

DiffFiles(d) == {e.file : e \in d}

Applies(d, t) == \A e \in d : t[e.file] = e.old

Patch(d, t) ==
  [h \in Files |->
     IF h \in DiffFiles(d) THEN (CHOOSE e \in d : e.file = h).new ELSE t[h]]

MergeConflicts(b, o, t) ==
  {h \in Files : b[h] # o[h] /\ b[h] # t[h] /\ o[h] # t[h]}

MergeTrees(b, o, t) ==
  [h \in Files |-> IF t[h] = b[h] THEN o[h] ELSE t[h]]

\* ---------------------------------------------------------------- messages
\* A message is a record: a plain message (n names its summary), the sentinel
\* written by do_fixup_commit (n is the identity of the commit to amend), or
\* "none" for a message that is not valid UTF-8 (Commit::message is None).
PlainMsg(n) == [kind |-> "plain", n |-> n]
Summaries == <<<<"a">>, <<"a", "b">>, <<"b">>, <<"c", "b">>, <<"a", "a">>, <<"b", "a">>>>
Patterns == {<<"a">>, <<"b">>, <<"a", "b">>, <<"c">>}

summary(m) ==
  IF m.kind = "plain" THEN Summaries[m.n]
  ELSE IF m.kind = "none" THEN <<>>
  ELSE <<m.kind, "!">>

\* variant of contains that only looks at the start of the summary
starts_with(s, pat) == Len(pat) <= Len(s) /\ SubSeq(s, 1, Len(pat)) = pat

contains(s, pat) ==
  \E i \in 0..(Len(s) - Len(pat)) : SubSeq(s, i + 1, i + Len(pat)) = pat

\* Reference::shorthand and Reference::name of a local branch are different
\* strings ("main" and "refs/heads/main").
shorthand(b) == [full |-> FALSE, name |-> b]
ref_name(b) == [full |-> TRUE, name |-> b]

\* ------------------------------------------------------------------- state
VARIABLES
  commits,          \* object store: sequence of [parents, tree, msg]
  refs,             \* local branch -> commit identity, NoRef or BadRef
  head,             \* HEAD: [sym |-> branch or "", id |-> identity if detached]
  tracking,         \* configured upstream of the head branch, or ""
  index,            \* staging area (a tree)
  conflicts,        \* files with conflict entries in the index
  workdir,          \* working tree
  stash,            \* stash stack of [base, workdir]
  rebase,           \* the rebase primitive's state
  pc,               \* position inside instafix
  err,              \* error returned by instafix, "" if none
  diff,             \* the amendment diff
  upstream,         \* Option<CommitSelection>
  commit_to_amend,  \* the selected commit, 0 before selection
  needs_stash,
  branches,         \* RepoBranches: identity -> set of branch names
  pre,              \* snapshot taken at invocation (for the properties)
  log,              \* observations: source of the diff, rewritten pairs, ...
  walked,           \* the last commit walk: its boundary, max_commits and range
  config            \* the command line, environment and git configuration read, and the Config made of them

vars == <<commits, refs, head, tracking, index, conflicts, workdir, stash,
          rebase, pc, err, diff, upstream, commit_to_amend, needs_stash,
          branches, pre, log, walked, config>>

repoVars == <<commits, refs, head, tracking, index, conflicts, workdir, stash, rebase>>

HeadCommit == IF head.sym = "" THEN head.id ELSE refs[head.sym]
HeadTree == TreeOf(commits, HeadCommit)

NoRebase == [active |-> FALSE, ops |-> <<>>, kinds |-> <<>>, cur |-> -1,
             orig_name |-> "", orig_id |-> 0, onto |-> 0]
NoUpstream == [some |-> FALSE, commit |-> 0, reference |-> ref_name("")]
\* an error carries its kind and the stage that raised it
NoErr == [kind |-> "", at |-> "", first |-> 0, last |-> 0]
Err(e) == [kind |-> e, at |-> pc, first |-> 0, last |-> 0]
bail(e) == pc' = "done" /\ err' = Err(e)
\* ---------------------------------------------------------------- config.rs
\* Option<T>, one None per type of the value
Some(x) == [some |-> TRUE, v |-> x]
NoneBool == [some |-> FALSE, v |-> FALSE]
NoneInt == [some |-> FALSE, v |-> 0]
NoneStr == [some |-> FALSE, v |-> ""]

\* the names of the environment: the four that Args declares, and one more
\* that Args does not declare
MAX_COMMITS_VAR == "GIT_INSTAFIX_MAX_COMMITS"
UPSTREAM_VAR == "GIT_INSTAFIX_UPSTREAM"
REQUIRE_NEWLINE_VAR == "GIT_INSTAFIX_REQUIRE_NEWLINE"
THEME_VAR == "GIT_INSTAFIX_THEME"
SQUASH_VAR == "GIT_INSTAFIX_SQUASH"
DEFAULT_THEME == "base16-ocean.dark"

\* what the process is started with: the flags of the command line, the
\* name it is invoked by, the environment and the git configuration
Flags ==
  [squash : {NoneBool, Some(FALSE)},
   max_commits : {NoneInt, Some(1)},
   default_upstream_branch : {NoneStr, Some("topic")},
   require_newline : {NoneBool, Some(FALSE)},
   theme : {NoneStr, Some("flag-theme")}]
Argv0 == {"git-instafix", "git-squash"}
Env ==
  {e \in [{MAX_COMMITS_VAR, UPSTREAM_VAR, REQUIRE_NEWLINE_VAR, THEME_VAR, SQUASH_VAR}
            -> {NoneStr, Some("2"), Some("many"), Some("true"), Some("main"), Some("env-theme")}] :
     /\ e[MAX_COMMITS_VAR] \in {NoneStr, Some("2"), Some("many")}
     /\ e[UPSTREAM_VAR] \in {NoneStr, Some("main")}
     /\ e[REQUIRE_NEWLINE_VAR] \in {NoneStr, Some("true")}
     /\ e[THEME_VAR] \in {NoneStr, Some("env-theme")}
     /\ e[SQUASH_VAR] \in {NoneStr, Some("true")}}
GitConfig ==
  [squash : {NoneBool, Some(TRUE)},
   max_commits : {NoneInt, Some(3), Some(-1)},
   default_upstream_branch : {NoneStr, Some("develop")},
   require_newline : {NoneBool, Some(TRUE)},
   theme : {NoneStr, Some("git-theme")}]

\* the value parsers of clap for usize and bool; ok = FALSE is a usage error
parse_usize(s) ==
  CASE s = "1" -> [ok |-> TRUE, v |-> 1]
    [] s = "2" -> [ok |-> TRUE, v |-> 2]
    [] s = "3" -> [ok |-> TRUE, v |-> 3]
    [] OTHER -> [ok |-> FALSE, v |-> 0]
parse_bool(s) ==
  CASE s = "true" -> [ok |-> TRUE, v |-> TRUE]
    [] s = "false" -> [ok |-> TRUE, v |-> FALSE]
    [] OTHER -> [ok |-> FALSE, v |-> FALSE]

\* `i as usize` of an i32: the value is wrap * 2^64 + v
as_usize(i) == [wrap |-> IF i < 0 THEN 1 ELSE 0, v |-> i]

\* clap: an argument with an `env` attribute takes the variable's value when
\* the flag is absent
flag_or_env(flag, var) == IF flag.some THEN flag ELSE var

\* Args::parse
Args(flags, env) ==
  LET m == env[MAX_COMMITS_VAR]
      r == env[REQUIRE_NEWLINE_VAR]
      pm == parse_usize(m.v)
      pr == parse_bool(r.v)
  IN [ok |-> /\ (~flags.max_commits.some /\ m.some) => pm.ok
             /\ (~flags.require_newline.some /\ r.some) => pr.ok,
      squash |-> flags.squash,
      max_commits |-> flag_or_env(flags.max_commits, IF m.some /\ pm.ok THEN Some(pm.v) ELSE NoneInt),
      default_upstream_branch |-> flag_or_env(flags.default_upstream_branch, env[UPSTREAM_VAR]),
      require_newline |-> flag_or_env(flags.require_newline, IF r.some /\ pr.ok THEN Some(pr.v) ELSE NoneBool),
      theme |-> flag_or_env(flags.theme, env[THEME_VAR])]

\* Option::unwrap_or_else(|| cfg.get_*(..).unwrap_or(default))
unwrap_or_else(opt, other, default) == IF opt.some THEN opt.v ELSE IF other.some THEN other.v ELSE default

args_to_config_using_git_config(args, cfg) ==
  [squash |-> unwrap_or_else(args.squash, cfg.squash, FALSE),
   max_commits |->
     IF args.max_commits.some THEN as_usize(args.max_commits.v)
     ELSE as_usize(unwrap_or_else(NoneInt, cfg.max_commits, 15)),
   default_upstream_branch |->
     IF args.default_upstream_branch.some THEN args.default_upstream_branch
     ELSE cfg.default_upstream_branch,
   require_newline |-> unwrap_or_else(args.require_newline, cfg.require_newline, FALSE),
   theme |-> unwrap_or_else(args.theme, cfg.theme, DEFAULT_THEME)]

ends_with_squash(argv0) == argv0 = "git-squash"

NoConfig == [stage |-> "", flags |-> <<>>, argv0 |-> "", env |-> <<>>, git |-> <<>>, cfg |-> <<>>]

\* what load_config_from_args_env_git makes of its inputs
Load(flags, argv0, env, git) ==
  LET parsed == Args(flags, env)
      args == IF ends_with_squash(argv0)
              THEN [parsed EXCEPT !.squash = Some(TRUE)]
              ELSE parsed
  IN [stage |-> IF parsed.ok THEN "loaded" ELSE "usage",
      flags |-> flags, argv0 |-> argv0, env |-> env, git |-> git,
      cfg |-> IF parsed.ok THEN args_to_config_using_git_config(args, git)
              ELSE <<>>]

\* nothing given on the command line, in the environment or in the git
\* configuration
NoFlags ==
  [squash |-> NoneBool, max_commits |-> NoneInt, default_upstream_branch |-> NoneStr,
   require_newline |-> NoneBool, theme |-> NoneStr]
NoGitConfig == NoFlags
NoEnv ==
  [n \in {MAX_COMMITS_VAR, UPSTREAM_VAR, REQUIRE_NEWLINE_VAR, THEME_VAR, SQUASH_VAR} |-> NoneStr]

NoWalk == [upstream |-> NoUpstream, max_commits |-> 0, range |-> <<>>,
           upstream_name |-> "", message_pattern |-> <<>>, selected |-> 0, keys |-> -1]
NoLog == [source |-> "", asked |-> FALSE, fixup |-> 0, map |-> {}, aborts |-> 0, started |-> FALSE,
          stashed |-> FALSE, retargeted |-> {}, records |-> {}, start_refs |-> <<>>,
          run |-> 1, first |-> <<>>]

\* ----------------------------------------------------------- initial states
\* Histories of MaxHist commits with HEAD on the newest one.  Two families:
\* a straight line with every choice of file content for the commits, the
\* index and the working tree; and every graph shape (side lines, one merge
\* commit) with every placement of the other branches.
RootTree == [h \in Files |-> 1]
Toggle(t, h) == [t EXCEPT ![h] = 1 - t[h]]
FileOf(i) == IF i % 2 = 0 THEN "g" ELSE "f"

LinearParents == [i \in 1..MaxHist |-> IF i = 1 THEN <<>> ELSE <<i - 1>>]

\* first parent i-1 or i-2; at most one merge commit, of i-1 and i-2
GraphParents ==
  {[i \in 1..MaxHist |->
      IF i = 1 THEN <<>>
      ELSE IF i = 2 THEN <<1>>
      ELSE IF i = m THEN <<i - fp[i], i - (3 - fp[i])>>
      ELSE <<i - fp[i]>>] :
     fp \in [3..MaxHist -> {1, 2}], m \in {0} \cup 3..MaxHist}

GraphTrees(par) ==
  LET g == [i \in 1..MaxHist |-> [parents |-> par[i]]]
      t[i \in 1..MaxHist] ==
        IF i = 1 THEN RootTree
        ELSE IF Len(par[i]) = 2
             THEN MergeTrees(t[merge_base(g, par[i][1], par[i][2])],
                             t[par[i][1]], t[par[i][2]])
             ELSE Toggle(t[par[i][1]], FileOf(i))
  IN t

MkCommits(par, ts) ==
  [i \in 1..MaxHist |-> [parents |-> par[i], tree |-> ts[i], msg |-> PlainMsg(i)]]

\* no untracked files: a file absent from the index is absent from the tree
Tracked(idx) == {w \in Tree : \A h \in Files : idx[h] = 0 => w[h] = 0}

InitLocalsWith(c) ==
  /\ head = [sym |-> "changes", id |-> 0]
  /\ tracking = ""
  /\ conflicts = {}
  /\ stash = <<>>
  /\ rebase = NoRebase
  /\ err = NoErr
  /\ diff = {}
  /\ upstream = NoUpstream
  /\ commit_to_amend = 0
  /\ needs_stash = FALSE
  /\ branches = <<>>
  /\ log = NoLog
  /\ pre = [refs |-> refs, head |-> head.sym, index |-> index, workdir |-> workdir,
            n |-> Len(commits)]
  /\ walked = NoWalk
  /\ config = c

InitLocals == InitLocalsWith(NoConfig)

InitProgram == InitLocals /\ pc = "create_diff"

InitContent ==
  /\ \E ts \in [2..MaxHist -> Tree] :
       commits = MkCommits(LinearParents,
                           [i \in 1..MaxHist |-> IF i = 1 THEN RootTree ELSE ts[i]])
  /\ \E m \in {1}, t \in {NoRef, 2} :
       refs = [b \in Branches |->
                 IF b = "changes" THEN MaxHist
                 ELSE IF b = "main" THEN m
                 ELSE IF b = "topic" THEN t ELSE NoRef]
  /\ index \in Tree
  /\ workdir \in Tracked(index)
  /\ InitProgram

InitGraph ==
  /\ \E par \in GraphParents : commits = MkCommits(par, GraphTrees(par))
  /\ \E m \in {NoRef, 1, 2}, t \in {NoRef, BadRef} \cup 1..MaxHist, tw \in BOOLEAN :
       /\ tw => t > 0
       /\ refs = [b \in Branches |->
                    IF b = "changes" THEN MaxHist
                    ELSE IF b = "main" THEN m
                    ELSE IF b = "topic" THEN t
                    ELSE IF b = "twin" /\ tw THEN t ELSE NoRef]
  /\ \E h \in Files : index = Toggle(commits[MaxHist].tree, h)
  /\ workdir \in Tracked(index)
  /\ InitProgram

Init == InitContent \/ InitGraph

\* ------------------------------------------------------------------ helpers
Exists(b) == b \in Branches /\ refs[b] # NoRef

\* variant of create_diff that stages the working-tree changes in every case
create_diff_everything ==
  /\ pc = "create_diff"
  /\ index' = Patch(diff_index_to_workdir(index, workdir), index)
  /\ diff' = DiffTrees(HeadTree, index')
  /\ log' = [log EXCEPT !.source = "staged"]
  /\ pc' = "get_merge_base"
  /\ UNCHANGED <<commits, refs, head, tracking, conflicts, workdir, stash, rebase,
                 err, upstream, commit_to_amend, needs_stash, branches, pre, walked, config>>

\* ---------------------------------------------------- patcher::create_diff
\* variant of create_diff that goes on with whatever diff there is
create_diff_unchecked ==
  /\ pc = "create_diff"
  /\ diff' = DiffTrees(HeadTree, index)
  /\ log' = [log EXCEPT !.source = "staged"]
  /\ pc' = "get_merge_base"
  /\ UNCHANGED <<commits, refs, head, tracking, index, conflicts, workdir, stash, rebase,
                 err, upstream, commit_to_amend, needs_stash, branches, pre, walked, config>>

\* Confirm::interact()?: the answer given, or the prompt's own failure when
\* no answer can be read
Interact == {"yes", "no", "failed"}

create_diff ==
  /\ pc = "create_diff"
  /\ LET head_tree == HeadTree
         staged_diff == DiffTrees(head_tree, index)
         dirty_diff == diff_index_to_workdir(index, workdir)
     IN IF staged_diff = {}
        THEN IF dirty_diff # {}
             THEN \E interact \in Interact :
                    /\ log' = [log EXCEPT !.asked = TRUE,
                                          !.source = IF interact = "yes" THEN "worktree" ELSE @]
                    /\ CASE interact = "yes" ->
                              /\ index' = Patch(dirty_diff, index)
                              /\ diff' = DiffTrees(head_tree, index')
                              /\ pc' = "get_merge_base"
                              /\ err' = err
                         [] interact = "no" ->
                              /\ bail("Declined")
                              /\ UNCHANGED <<index, diff>>
                         [] interact = "failed" ->
                              /\ bail("InteractFailed")
                              /\ UNCHANGED <<index, diff>>
             ELSE /\ bail("NothingToAmend")
                  /\ UNCHANGED <<index, diff, log>>
        ELSE /\ diff' = staged_diff
             /\ log' = [log EXCEPT !.source = "staged"]
             /\ pc' = "get_merge_base"
             /\ UNCHANGED <<index, err>>
  /\ UNCHANGED <<commits, refs, head, tracking, conflicts, workdir, stash, rebase,
                 upstream, commit_to_amend, needs_stash, branches, pre, walked, config>>

\* ------------------------------------------------ selecter::get_merge_base
DEFAULT_UPSTREAM_BRANCHES == <<"main", "master", "develop", "trunk">>
UpstreamNames == {"", "topic"}

\* variant of find_default_upstream_branch that prefers the last name of the list
find_last_upstream_branch ==
  LET hits == {i \in DOMAIN DEFAULT_UPSTREAM_BRANCHES : Exists(DEFAULT_UPSTREAM_BRANCHES[i])}
  IN IF hits = {} THEN ""
     ELSE DEFAULT_UPSTREAM_BRANCHES[CHOOSE i \in hits : \A j \in hits : i >= j]

find_default_upstream_branch ==
  LET hits == {i \in DOMAIN DEFAULT_UPSTREAM_BRANCHES : Exists(DEFAULT_UPSTREAM_BRANCHES[i])}
  IN IF hits = {} THEN ""
     ELSE DEFAULT_UPSTREAM_BRANCHES[CHOOSE i \in hits : \A j \in hits : i <= j]

\* the branch the boundary is taken from: "" when there is none, "?" when the
\* explicit name does not resolve
upstream_candidate(upstream_name) ==
  IF upstream_name # ""
  THEN IF Exists(upstream_name) THEN upstream_name ELSE "?"
  ELSE IF find_default_upstream_branch # "" THEN find_default_upstream_branch
  ELSE IF tracking # "" /\ Exists(tracking) THEN tracking
  ELSE ""

\* get_merge_base called with upstream_name ("" for None)
merge_base_of(upstream_name) ==
  LET cand == upstream_candidate(upstream_name)
  IN IF cand = "?" THEN bail("RefNotFound") /\ UNCHANGED upstream
     ELSE IF cand = "" THEN /\ upstream' = NoUpstream
                            /\ pc' = "select_commit_to_amend"
                            /\ err' = err
     ELSE IF refs[cand] = BadRef THEN bail("EngineError") /\ UNCHANGED upstream
     ELSE LET mb == merge_base(commits, refs[head.sym], refs[cand])
          IN IF mb = 0 THEN bail("EngineError") /\ UNCHANGED upstream
             ELSE /\ upstream' = [some |-> TRUE, commit |-> mb,
                                  reference |-> ref_name(cand)]
                  /\ pc' = "select_commit_to_amend"
                  /\ err' = err

get_merge_base ==
  /\ pc = "get_merge_base"
  /\ \E upstream_name \in UpstreamNames : merge_base_of(upstream_name)
  /\ UNCHANGED <<repoVars, diff, commit_to_amend, needs_stash, branches, pre, log, walked, config>>

\* ---------------------------------------- selecter::select_commit_to_amend
\* the commit range: newest first, up to the boundary, at most max_commits
commit_range(cs, h, up, max_commits) ==
  IF up.some
  THEN take(take_while_ne(revwalk(cs, h), up.commit), max_commits)
  ELSE take(revwalk(cs, h), max_commits)

\* the outcome of the selection: message_pattern <<>> stands for no pattern
\* (interactive choice of entry `selected`, 0 for a cancelled prompt)
select_outcome(cs, h, head_name, up, max_commits, message_pattern, selected) ==
  LET range == commit_range(cs, h, up, max_commits)
      hits == {i \in DOMAIN range :
                 /\ cs[range[i]].msg.kind # "none"
                 /\ contains(summary(cs[range[i]].msg), message_pattern)}
      none(e) == [err |-> e, commit |-> 0, range |-> range, first |-> 0, last |-> 0]
  IN IF up.some /\ h = up.commit /\ shorthand(head_name) = up.reference
     THEN none("NoDivergence")
     ELSE IF range = <<>>
     THEN \* "No commits between {} and {:?}": format_ref(head), the boundary
          \* commit or 0 for "<no upstream>"
          [none("EmptyRange") EXCEPT !.first = h,
                                     !.last = IF up.some THEN up.commit ELSE 0]
     ELSE IF message_pattern # <<>>
     THEN IF hits = {}
          THEN [none("PatternNotFound") EXCEPT !.first = range[Len(range)],
                                               !.last = range[1]]
          ELSE [none("") EXCEPT
                  !.commit = range[CHOOSE i \in hits : \A j \in hits : i <= j]]
     ELSE IF selected \notin DOMAIN range THEN none("InteractionCancelled")
     ELSE [none("") EXCEPT !.commit = range[selected]]

\* select_commit_to_amend of lib.rs: the same walk and choice, no comparison of
\* HEAD with the boundary, and the boundary of the EmptyRange message taken
\* with unwrap(), which panics when there is no boundary
select_outcome_lib(cs, h, up, max_commits, message_pattern, selected) ==
  LET range == commit_range(cs, h, up, max_commits)
      hits == {i \in DOMAIN range :
                 /\ cs[range[i]].msg.kind # "none"
                 /\ contains(summary(cs[range[i]].msg), message_pattern)}
      none(e) == [err |-> e, commit |-> 0, range |-> range, first |-> 0, last |-> 0]
  IN IF range = <<>>
     THEN IF up.some
          THEN [none("EmptyRange") EXCEPT !.first = h, !.last = up.commit]
          ELSE none("panic")
     ELSE IF message_pattern # <<>>
     THEN IF hits = {}
          THEN [none("PatternNotFound") EXCEPT !.first = range[Len(range)],
                                               !.last = range[1]]
          ELSE [none("") EXCEPT
                  !.commit = range[CHOOSE i \in hits : \A j \in hits : i <= j]]
     ELSE IF selected \notin DOMAIN range THEN none("InteractionCancelled")
     ELSE [none("") EXCEPT !.commit = range[selected]]

\* variant of Selected whose error names no commit
Selected_unnamed(out) ==
  /\ commit_to_amend' = out.commit
  /\ IF out.err # ""
     THEN bail(out.err)
     ELSE pc' = "do_fixup_commit" /\ err' = err

Selected(out) ==
  /\ commit_to_amend' = out.commit
  /\ IF out.err # ""
     THEN /\ pc' = "done"
          /\ err' = [Err(out.err) EXCEPT !.first = out.first, !.last = out.last]
     ELSE pc' = "do_fixup_commit" /\ err' = err

select_commit_to_amend ==
  /\ pc = "select_commit_to_amend"
  /\ \E max_commits \in 0..MaxWalk :
       \/ \E message_pattern \in Patterns :
            Selected(select_outcome(commits, HeadCommit, head.sym, upstream,
                                    max_commits, message_pattern, 0))
       \/ \E selected \in 0..max_commits :
            LET out == select_outcome(commits, HeadCommit, head.sym, upstream,
                                      max_commits, <<>>, selected)
            IN selected <= Len(out.range) /\ Selected(out)
  /\ upstream' = NoUpstream
  /\ UNCHANGED <<repoVars, diff, needs_stash, branches, pre, log, walked, config>>

\* ------------------------------------------------ patcher::do_fixup_commit
\* c.squash of instafix: false when no Config is part of the run
SquashModes == IF config.stage = "loaded" THEN {config.cfg.squash} ELSE {FALSE}

do_fixup_commit ==
  /\ pc = "do_fixup_commit"
  /\ \E squash \in SquashModes, fails \in BOOLEAN :
       IF fails
       THEN bail("EngineError") /\ UNCHANGED <<commits, refs, log>>
       ELSE LET msg == [kind |-> IF squash THEN "squash" ELSE "fixup",
                        n |-> commit_to_amend]
                head_commit == refs[head.sym]
                id == Len(commits) + 1
            IN /\ commits' = Append(commits, [parents |-> <<head_commit>>,
                                              tree |-> index, msg |-> msg])
               /\ refs' = [refs EXCEPT ![head.sym] = id]
               /\ log' = [log EXCEPT !.fixup = id]
               /\ pc' = "worktree_is_dirty"
               /\ err' = err
  /\ UNCHANGED <<head, tracking, index, conflicts, workdir, stash, rebase, diff,
                 upstream, commit_to_amend, needs_stash, branches, pre, walked, config>>

\* ------------------------- patcher::worktree_is_dirty, Repository::stash_save
worktree_is_dirty ==
  DiffTrees(HeadTree, index) # {} \/ diff_index_to_workdir(index, workdir) # {}

stash_save ==
  /\ pc = "worktree_is_dirty"
  /\ IF worktree_is_dirty
     THEN \E fails \in BOOLEAN :
            IF fails
            THEN bail("EngineError") /\ UNCHANGED <<stash, index, workdir, needs_stash, log>>
            ELSE /\ stash' = <<[base |-> HeadTree, index |-> index,
                                workdir |-> workdir]>> \o stash
                 /\ index' = HeadTree
                 /\ workdir' = HeadTree
                 /\ needs_stash' = TRUE
                 /\ log' = [log EXCEPT !.stashed = TRUE]
                 /\ pc' = "do_rebase"
                 /\ err' = err
     ELSE /\ needs_stash' = FALSE
          /\ pc' = "do_rebase"
          /\ UNCHANGED <<stash, index, workdir, err, log>>
  /\ UNCHANGED <<commits, refs, head, tracking, conflicts, rebase, diff, upstream,
                 commit_to_amend, branches, pre, walked, config>>

\* ------------------------------------------------------ the rebase primitive
SortAsc(S) == Reverse(SortDesc(S))

\* git2::RebaseOperationType; op.kind() is None for any other value
Pick == "Pick"
RebaseOperationType == {Pick, "Reword", "Edit", "Squash", "Fixup", "Exec"}
OperationKinds == RebaseOperationType \cup {"None"}

\* git_rebase_init: the commits of upstream..branch that are not merges,
\* oldest first, each to be picked
rebase_operations(cs, branch, up) ==
  SortAsc({c \in Reach(cs, branch) \ Reach(cs, up) : Len(cs[c].parents) <= 1})

\* git_rebase_next: three-way merge of the step's commit onto HEAD, checked
\* against uncommitted changes, checked out into index and working tree
next_merge(c) ==
  LET headT == HeadTree
      base == TreeOf(commits, first_parent_of(commits, c))
      theirs == commits[c].tree
      confl == MergeConflicts(base, headT, theirs)
      m == MergeTrees(base, headT, theirs)
      paths == {h \in Files : m[h] # headT[h]} \cup confl
      dirty == {h \in paths : (index[h] # headT[h] /\ index[h] # m[h])
                              \/ workdir[h] # index[h]}
  IN [ok |-> dirty = {},
      index |-> [h \in Files |-> IF h \in paths THEN m[h] ELSE index[h]],
      workdir |-> [h \in Files |-> IF h \in paths THEN m[h] ELSE workdir[h]],
      conflicts |-> confl \cup (conflicts \ paths)]

\* ----------------------------------------------------- rebaser::RepoBranches
for_repo(rf) ==
  LET ids == {rf[b] : b \in {x \in Branches : rf[x] # NoRef}}
  IN [c \in ids |-> {b \in Branches : rf[b] = c}]

\* variant of retarget_branches that moves the branches of every commit
retarget_every_branch(bs, original_commit, cur, len) ==
  IF cur # len - 1 THEN UNION {bs[c] : c \in DOMAIN bs} ELSE {}

\* variant of retarget_branches without the test of the last step
retarget_branches_at_any_step(bs, original_commit, cur, len) ==
  IF original_commit \in DOMAIN bs THEN bs[original_commit] ELSE {}

\* Branch::name: None for a name that is not valid UTF-8
branch_name(b) == IF b = NotUtf8 THEN NoneStr ELSE Some(b)

\* the branches moved by retarget_branches(original_commit, target_commit)
\* when the cursor is at cur
retarget_branches(bs, original_commit, cur, len) ==
  IF original_commit \in DOMAIN bs /\ cur # len - 1
  THEN bs[original_commit]
  ELSE {}

\* the records returned for the branches moved
RetargetedBranch(moved, from, to) == {[name |-> b, from |-> from, to |-> to] : b \in moved}

Retargeted(rf, moved, target_commit) ==
  [b \in Branches |-> IF b \in moved THEN target_commit ELSE rf[b]]

commit_parent(c) == first_parent_of(commits, c)

\* ------------------------------------------------------- rebaser::do_rebase
\* up to and including RepoBranches::for_repo
do_rebase ==
  /\ pc = "do_rebase"
  /\ LET first_parent == commit_parent(commit_to_amend)
         branch_commit == refs[head.sym]
     IN IF first_parent = 0
        THEN /\ bail("NoParents")
             /\ UNCHANGED <<head, index, workdir, rebase, branches, log>>
        ELSE \E fails \in BOOLEAN :
             IF \/ fails
                \/ rebase.active
                \/ worktree_is_dirty
             THEN /\ bail("starting rebase")
                  /\ UNCHANGED <<head, index, workdir, rebase, branches, log>>
             ELSE /\ rebase' = [active |-> TRUE,
                                ops |-> rebase_operations(commits, branch_commit,
                                                          first_parent),
                                kinds |-> [i \in DOMAIN rebase_operations(commits, branch_commit,
                                                                          first_parent) |-> Pick],
                                cur |-> -1,
                                orig_name |-> head.sym,
                                orig_id |-> branch_commit,
                                onto |-> first_parent]
                  /\ head' = [sym |-> "", id |-> first_parent]
                  /\ index' = commits[first_parent].tree
                  /\ workdir' = commits[first_parent].tree
                  /\ log' = [log EXCEPT !.started = TRUE, !.start_refs = refs]
                  /\ IF \E b \in Branches : refs[b] = BadRef
                     THEN bail("peel_to_commit") /\ UNCHANGED branches
                     ELSE /\ branches' = for_repo(refs)
                          /\ pc' = "apply_diff_in_rebase"
                          /\ err' = err
  /\ UNCHANGED <<commits, refs, tracking, conflicts, stash, diff, upstream,
                 commit_to_amend, needs_stash, pre, walked, config>>

fixup_message == commits[rebase.orig_id].msg

\* variant of apply_diff_in_rebase that takes a missing step for a step done
apply_diff_in_rebase_done ==
  /\ pc = "apply_diff_in_rebase"
  /\ pc' = "do_rebase_inner"
  /\ UNCHANGED <<commits, refs, head, tracking, index, conflicts, workdir, stash, rebase,
                 err, diff, upstream, commit_to_amend, needs_stash, branches, pre, log,
                 walked, config>>

\* --------------------------------------------- rebaser::apply_diff_in_rebase
\* the first step: fold the diff into the commit of the first operation
apply_diff_in_rebase ==
  /\ pc = "apply_diff_in_rebase"
  /\ IF rebase.cur + 1 >= Len(rebase.ops)
     THEN /\ err' = Err("EmptyRebase")
          /\ pc' = "abort"
          /\ UNCHANGED <<commits, refs, head, index, conflicts, workdir, rebase, log>>
     ELSE LET cur == rebase.cur + 1
              target_commit == rebase.ops[cur + 1]
              nm == next_merge(target_commit)
              tree == Patch(diff, nm.index)
              rewrit_id == Len(commits) + 1
              moved == retarget_branches(branches, target_commit, cur, Len(rebase.ops))
          IN /\ rebase' = [rebase EXCEPT !.cur = cur]
             /\ \E fails \in {"no", "early", "late"} :
                  IF ~nm.ok
                  THEN /\ err' = Err("EngineError")
                       /\ pc' = "abort"
                       /\ UNCHANGED <<commits, refs, head, index, conflicts, workdir, log>>
                  ELSE IF \/ fails = "early"
                          \/ ~Applies(diff, nm.workdir)
                          \/ ~Applies(diff, nm.index)
                          \/ nm.conflicts # {}
                  THEN /\ err' = Err("EngineError")
                       /\ pc' = "abort"
                       /\ index' = nm.index
                       /\ workdir' = nm.workdir
                       /\ conflicts' = nm.conflicts
                       /\ UNCHANGED <<commits, refs, head, log>>
                  ELSE /\ index' = tree
                       /\ workdir' = Patch(diff, nm.workdir)
                       /\ conflicts' = {}
                       /\ commits' = Append(commits,
                                            [parents |-> commits[target_commit].parents,
                                             tree |-> tree,
                                             msg |-> commits[target_commit].msg])
                       /\ IF \E b \in moved : ~branch_name(b).some
                          THEN \* retarget_branches fails at the branch without a
                               \* name, after the branches before it were moved
                               \E sub \in SUBSET {b \in moved : branch_name(b).some} :
                                 /\ refs' = Retargeted(refs, sub, rewrit_id)
                                 /\ log' = [log EXCEPT
                                              !.map = @ \cup {<<target_commit, rewrit_id>>},
                                              !.retargeted = @ \cup sub,
                                              !.records = @ \cup RetargetedBranch(sub, target_commit, rewrit_id)]
                                 /\ err' = Err("NameEncodingError")
                                 /\ pc' = "abort"
                                 /\ head' = head
                          ELSE /\ refs' = Retargeted(refs, moved, rewrit_id)
                               /\ log' = [log EXCEPT
                                            !.map = @ \cup {<<target_commit, rewrit_id>>},
                                            !.retargeted = @ \cup moved,
                                            !.records = @ \cup RetargetedBranch(moved, target_commit, rewrit_id)]
                               /\ IF fails = "late"
                                  THEN /\ err' = Err("EngineError")
                                       /\ pc' = "abort"
                                       /\ head' = head
                                  ELSE /\ head' = [sym |-> "", id |-> rewrit_id]
                                       /\ pc' = "do_rebase_inner"
                                       /\ err' = err
  /\ UNCHANGED <<tracking, stash, diff, upstream, commit_to_amend, needs_stash,
                 branches, pre, walked, config>>

\* ------------------------------------------------- rebaser::do_rebase_inner
\* one iteration of the loop over the remaining operations
do_rebase_inner ==
  /\ pc = "do_rebase_inner"
  /\ IF rebase.cur + 1 >= Len(rebase.ops)
     THEN /\ pc' = "finish"
          /\ UNCHANGED <<commits, refs, head, index, conflicts, workdir, rebase, err, log>>
     ELSE LET cur == rebase.cur + 1
              commit == rebase.ops[cur + 1]
              kind == rebase.kinds[cur + 1]
              message == commits[commit].msg
              nm == next_merge(commit)
              new_id == Len(commits) + 1
              moved == retarget_branches(branches, commit, cur, Len(rebase.ops))
          IN /\ rebase' = [rebase EXCEPT !.cur = cur]
             /\ \E fails \in BOOLEAN :
                  IF ~nm.ok
                  THEN /\ err' = Err("EngineError")
                       /\ pc' = "abort"
                       /\ UNCHANGED <<commits, refs, head, index, conflicts, workdir, log>>
                  ELSE /\ index' = nm.index
                       /\ workdir' = nm.workdir
                       /\ conflicts' = nm.conflicts
                       /\ IF fails
                          THEN /\ err' = Err("EngineError")
                               /\ pc' = "abort"
                               /\ UNCHANGED <<commits, refs, head, log>>
                          ELSE IF kind \in RebaseOperationType \ {Pick}
                          THEN /\ err' = Err("UnsupportedOperation")
                               /\ pc' = "abort"
                               /\ UNCHANGED <<commits, refs, head, log>>
                          ELSE IF kind = Pick /\ message.kind # "none" /\ message # fixup_message
                          THEN IF nm.conflicts # {} \/ nm.index = HeadTree
                               THEN /\ err' = Err("EngineError")
                                    /\ pc' = "abort"
                                    /\ UNCHANGED <<commits, refs, head, log>>
                               ELSE /\ commits' = Append(commits,
                                                         [parents |-> <<HeadCommit>>,
                                                          tree |-> nm.index,
                                                          msg |-> message])
                                    /\ head' = [sym |-> "", id |-> new_id]
                                    /\ IF \E b \in moved : ~branch_name(b).some
                                       THEN \E sub \in SUBSET {b \in moved : branch_name(b).some} :
                                              /\ refs' = Retargeted(refs, sub, new_id)
                                              /\ log' = [log EXCEPT
                                                           !.map = @ \cup {<<commit, new_id>>},
                                                           !.retargeted = @ \cup sub,
                                                           !.records = @ \cup RetargetedBranch(sub, commit, new_id)]
                                              /\ err' = Err("NameEncodingError")
                                              /\ pc' = "abort"
                                       ELSE /\ refs' = Retargeted(refs, moved, new_id)
                                            /\ log' = [log EXCEPT
                                                         !.map = @ \cup {<<commit, new_id>>},
                                                         !.retargeted = @ \cup moved,
                                                         !.records = @ \cup RetargetedBranch(moved, commit, new_id)]
                                            /\ UNCHANGED <<pc, err>>
                          ELSE UNCHANGED <<commits, refs, head, log, pc, err>>
  /\ UNCHANGED <<tracking, stash, diff, upstream, commit_to_amend, needs_stash,
                 branches, pre, walked, config>>

\* --------------------------------------------------------- Rebase::finish
finish ==
  /\ pc = "finish"
  /\ \E fails \in BOOLEAN :
       IF fails
       THEN bail("EngineError") /\ UNCHANGED <<refs, head, rebase>>
       ELSE /\ refs' = [refs EXCEPT ![rebase.orig_name] = HeadCommit]
            /\ head' = [sym |-> rebase.orig_name, id |-> 0]
            /\ rebase' = NoRebase
            /\ pc' = IF needs_stash THEN "stash_pop" ELSE "done"
            /\ err' = err
  /\ UNCHANGED <<commits, tracking, index, conflicts, workdir, stash, diff, upstream,
                 commit_to_amend, needs_stash, branches, pre, log, walked, config>>

\* variant of the abort that resets the branch to the commit rebased onto
abort_to_onto ==
  /\ pc = "abort"
  /\ head' = [sym |-> rebase.orig_name, id |-> 0]
  /\ refs' = [refs EXCEPT ![rebase.orig_name] = rebase.onto]
  /\ index' = commits[rebase.onto].tree
  /\ workdir' = commits[rebase.onto].tree
  /\ conflicts' = {}
  /\ rebase' = NoRebase
  /\ log' = [log EXCEPT !.aborts = @ + 1]
  /\ pc' = "done"
  /\ UNCHANGED <<commits, tracking, stash, err, diff, upstream, commit_to_amend,
                 needs_stash, branches, pre, walked, config>>

\* ------------------------------------- rebaser::print_help_and_abort_rebase
print_help_and_abort_rebase ==
  /\ pc = "abort"
  /\ head' = [sym |-> rebase.orig_name, id |-> 0]
  /\ refs' = [refs EXCEPT ![rebase.orig_name] = rebase.orig_id]
  /\ index' = commits[rebase.orig_id].tree
  /\ workdir' = commits[rebase.orig_id].tree
  /\ conflicts' = {}
  /\ rebase' = NoRebase
  /\ log' = [log EXCEPT !.aborts = @ + 1]
  /\ pc' = "done"
  /\ UNCHANGED <<commits, tracking, stash, err, diff, upstream, commit_to_amend,
                 needs_stash, branches, pre, walked, config>>

\* variant of stash_pop that drops the stash entry without applying it
stash_drop ==
  /\ pc = "stash_pop"
  /\ \E fails \in BOOLEAN :
       IF fails \/ DiffTrees(HeadTree, index) # {}
       THEN bail("EngineError") /\ UNCHANGED stash
       ELSE /\ stash' = Tail(stash)
            /\ pc' = "done"
            /\ err' = err
  /\ UNCHANGED <<commits, refs, head, tracking, index, conflicts, workdir, rebase, diff,
                 upstream, commit_to_amend, needs_stash, branches, pre, log, walked, config>>

\* ---------------------------------------------------- Repository::stash_pop
stash_pop ==
  /\ pc = "stash_pop"
  /\ LET st == Head(stash)
         confl == MergeConflicts(st.base, index, st.workdir)
         m == MergeTrees(st.base, index, st.workdir)
         paths == {h \in Files : m[h] # index[h]}
     IN \E fails \in BOOLEAN :
          IF \/ fails
             \/ DiffTrees(HeadTree, index) # {}
             \/ confl # {}
             \/ \E h \in paths : workdir[h] # index[h]
          THEN bail("EngineError") /\ UNCHANGED <<workdir, stash>>
          ELSE /\ workdir' = [h \in Files |-> IF h \in paths THEN m[h] ELSE workdir[h]]
               /\ stash' = Tail(stash)
               /\ pc' = "done"
               /\ err' = err
  /\ UNCHANGED <<commits, refs, head, tracking, index, conflicts, rebase, diff,
                 upstream, commit_to_amend, needs_stash, branches, pre, log, walked, config>>

\* ------------------------------------------------------------ main
\* the context instafix attaches to the error of a stage, "" for none
Context(at) ==
  CASE at = "create_diff" -> "creating diff"
    [] at = "get_merge_base" -> "creating merge base"
    [] at = "select_commit_to_amend" -> "selecting commit to amend"
    [] at = "do_fixup_commit" -> "doing fixup commit"
    [] OTHER -> ""

\* the message an error is created with: bail!("") for a declined confirmation
message(kind) == IF kind = "Declined" THEN "" ELSE kind

\* Display of an anyhow error: its outermost context
to_string(e) == IF Context(e.at) # "" THEN Context(e.at) ELSE message(e.kind)

\* main: what it does with the result of instafix
exit_code(result) == IF result = NoErr THEN 0 ELSE 1
printed(result) == result # NoErr /\ to_string(result) # ""

Next ==
  \/ create_diff
  \/ get_merge_base
  \/ select_commit_to_amend
  \/ do_fixup_commit
  \/ stash_save
  \/ do_rebase
  \/ apply_diff_in_rebase
  \/ do_rebase_inner
  \/ finish
  \/ print_help_and_abort_rebase
  \/ stash_pop

Spec == Init /\ [][Next]_vars

\* ------------------------------------------- the commit walk on its own
\* Every history shape with HEAD on any commit; the walk is applied to every
\* boundary (an ancestor of HEAD or not, HEAD itself, or none) and every
\* max_commits.
InitWalk ==
  /\ \E par \in GraphParents : commits = MkCommits(par, GraphTrees(par))
  /\ \E h \in 1..MaxHist :
       /\ refs = [b \in Branches |-> IF b = "changes" THEN h ELSE NoRef]
       /\ index = commits[h].tree
       /\ workdir = commits[h].tree
  /\ InitLocals
  /\ pc = "walk"

walk ==
  /\ pc = "walk"
  /\ \E b \in 0..Len(commits), max_commits \in 0..MaxWalk :
       LET up == IF b = 0 THEN NoUpstream
                 ELSE [some |-> TRUE, commit |-> b, reference |-> ref_name("topic")]
       IN walked' = [NoWalk EXCEPT
                       !.upstream = up,
                       !.max_commits = max_commits,
                       !.range = commit_range(commits, HeadCommit, up, max_commits)]
  /\ pc' = "done"
  /\ UNCHANGED <<repoVars, err, diff, upstream, commit_to_amend, needs_stash,
                 branches, pre, log, config>>

NextWalk == walk

SpecWalk == InitWalk /\ [][NextWalk]_vars

\* ------------------------------- boundary resolution and selection on their own
\* Every history shape, possibly with one commit whose message cannot be
\* decoded; HEAD on "changes" or on the trunk "main"; some of the default
\* upstream branches, all on one commit; "topic" as explicit upstream name and
\* as configured upstream of the head branch.
DefaultSets == {{}, {"main"}, {"master"}, {"develop"}, {"trunk"},
                {"master", "develop"}, {"main", "trunk"}}

InitSelect ==
  /\ \E par \in GraphParents, u \in {0, MaxHist - 1} :
       commits = [i \in 1..MaxHist |->
                    [MkCommits(par, GraphTrees(par))[i] EXCEPT
                       !.msg = IF i = u THEN [kind |-> "none", n |-> i] ELSE @]]
  /\ \E hb \in {"changes", "main"}, D \in DefaultSets, p \in {1, MaxHist - 1},
        t \in {NoRef, 1} :
       /\ head = [sym |-> hb, id |-> 0]
       /\ refs = [b \in Branches |->
                    IF b = hb THEN MaxHist
                    ELSE IF b \in D THEN p
                    ELSE IF b = "topic" THEN t ELSE NoRef]
       /\ tracking \in IF t = NoRef THEN {""} ELSE {"", "topic"}
  /\ index = commits[MaxHist].tree
  /\ workdir = index
  /\ conflicts = {}
  /\ stash = <<>>
  /\ rebase = NoRebase
  /\ err = NoErr
  /\ diff = {}
  /\ upstream = NoUpstream
  /\ commit_to_amend = 0
  /\ needs_stash = FALSE
  /\ branches = <<>>
  /\ log = NoLog
  /\ pre = [refs |-> refs, head |-> head.sym, index |-> index, workdir |-> workdir,
            n |-> Len(commits)]
  /\ walked = NoWalk
  /\ config = NoConfig
  /\ pc = "get_merge_base"

\* get_merge_base, with its argument recorded
get_merge_base_recorded ==
  /\ pc = "get_merge_base"
  /\ \E upstream_name \in UpstreamNames :
       /\ merge_base_of(upstream_name)
       /\ walked' = [walked EXCEPT !.upstream_name = upstream_name]
  /\ UNCHANGED <<repoVars, diff, commit_to_amend, needs_stash, branches, pre, log, config>>

\* select_commit_to_amend, with its arguments and the commit range recorded
select_commit_to_amend_recorded ==
  /\ pc = "select_commit_to_amend"
  /\ \E max_commits \in 0..MaxWalk :
       \/ \E message_pattern \in Patterns :
            LET out == select_outcome(commits, HeadCommit, head.sym, upstream,
                                      max_commits, message_pattern, 0)
            IN /\ Selected(out)
               /\ walked' = [walked EXCEPT !.upstream = upstream,
                                           !.max_commits = max_commits,
                                           !.range = out.range,
                                           !.message_pattern = message_pattern]
       \/ \E selected \in 0..max_commits :
            LET out == select_outcome(commits, HeadCommit, head.sym, upstream,
                                      max_commits, <<>>, selected)
            IN /\ selected <= Len(out.range)
               /\ Selected(out)
               /\ walked' = [walked EXCEPT !.upstream = upstream,
                                           !.max_commits = max_commits,
                                           !.range = out.range,
                                           !.selected = selected]
  /\ upstream' = NoUpstream
  /\ UNCHANGED <<repoVars, diff, needs_stash, branches, pre, log, config>>

NextSelect ==
  \/ get_merge_base_recorded
  \/ select_commit_to_amend_recorded

SpecSelect == InitSelect /\ [][NextSelect]_vars

\* the same with select_commit_to_amend of lib.rs, the one instafix of lib.rs
\* calls
select_commit_to_amend_lib_recorded ==
  /\ pc = "select_commit_to_amend"
  /\ \E max_commits \in 0..MaxWalk :
       \/ \E message_pattern \in Patterns :
            LET out == select_outcome_lib(commits, HeadCommit, upstream,
                                          max_commits, message_pattern, 0)
            IN /\ Selected(out)
               /\ walked' = [walked EXCEPT !.upstream = upstream,
                                           !.max_commits = max_commits,
                                           !.range = out.range,
                                           !.message_pattern = message_pattern]
       \/ \E selected \in 0..max_commits :
            LET out == select_outcome_lib(commits, HeadCommit, upstream,
                                          max_commits, <<>>, selected)
            IN /\ selected <= Len(out.range)
               /\ Selected(out)
               /\ walked' = [walked EXCEPT !.upstream = upstream,
                                           !.max_commits = max_commits,
                                           !.range = out.range,
                                           !.selected = selected]
  /\ upstream' = NoUpstream
  /\ UNCHANGED <<repoVars, diff, needs_stash, branches, pre, log, config>>

NextSelectLib ==
  \/ get_merge_base_recorded
  \/ select_commit_to_amend_lib_recorded

SpecSelectLib == InitSelect /\ [][NextSelectLib]_vars

\* ------------------------------------------------ the interactive choice
\* variant of interact that answers the default entry for a cancelled prompt
interact_or_default(len, keys) == [ok |-> TRUE, v |-> IF keys < 0 THEN 0 ELSE keys % len]

\* Select::new().items(..).default(0).interact(): the cursor starts on entry
\* 0 and moves down, around the list, once for each of `keys` key presses
\* before Enter; keys < 0 stands for a prompt that is cancelled or cannot be
\* read, which interact() returns as an error
interact(len, keys) ==
  IF keys < 0 THEN [ok |-> FALSE, v |-> 0] ELSE [ok |-> TRUE, v |-> (0 + keys) % len]

\* select_commit_to_amend without a pattern, with the keys pressed recorded
select_commit_to_amend_interactive ==
  /\ pc = "select_commit_to_amend"
  /\ \E max_commits \in 0..MaxWalk, keys \in -1..MaxWalk :
       LET range == commit_range(commits, HeadCommit, upstream, max_commits)
           selected == IF range = <<>> THEN [ok |-> FALSE, v |-> 0]
                       ELSE interact(Len(range), keys)
           out == select_outcome(commits, HeadCommit, head.sym, upstream, max_commits,
                                 <<>>, IF selected.ok THEN selected.v + 1 ELSE 0)
       IN /\ Selected(out)
          /\ walked' = [walked EXCEPT !.upstream = upstream,
                                      !.max_commits = max_commits,
                                      !.range = out.range,
                                      !.selected = IF selected.ok THEN selected.v + 1 ELSE 0,
                                      !.keys = keys]
  /\ upstream' = NoUpstream
  /\ UNCHANGED <<repoVars, diff, needs_stash, branches, pre, log, config>>

NextInteractive ==
  \/ get_merge_base_recorded
  \/ select_commit_to_amend_interactive
  \/ do_fixup_commit

SpecInteractive == InitSelect /\ [][NextInteractive]_vars

\* ------------------------------- a branch whose name is not valid UTF-8
\* a straight history with staged changes and the branch on any commit,
\* alone or beside "topic"
InitNames ==
  /\ commits = MkCommits(LinearParents, GraphTrees(LinearParents))
  /\ \E u \in 1..MaxHist, t \in {NoRef} \cup 1..MaxHist :
       refs = [b \in Branches |->
                 IF b = "changes" THEN MaxHist
                 ELSE IF b = "main" THEN 1
                 ELSE IF b = NotUtf8 THEN u
                 ELSE IF b = "topic" THEN t ELSE NoRef]
  /\ \E h \in Files : index = Toggle(commits[MaxHist].tree, h)
  /\ workdir \in Tracked(index)
  /\ InitProgram

SpecNames == InitNames /\ [][Next]_vars

\* ------------------------------------------------- the engine runs on
\* do_rebase is straight-line code and a loop over the operations: a stage of
\* it that can run does run
SpecTerminates ==
  /\ InitNames
  /\ [][Next]_vars
  /\ WF_vars(do_rebase)
  /\ WF_vars(apply_diff_in_rebase)
  /\ WF_vars(do_rebase_inner)
  /\ WF_vars(finish)
  /\ WF_vars(print_help_and_abort_rebase)

\* ------------------------------------------------------- observation helpers
Success == pc = "done" /\ err = NoErr
Failure == pc = "done" /\ err # NoErr
OrigTip == pre.refs[pre.head]
Rewritten(x) == {p[2] : p \in {q \in log.map : q[1] = x}}
Introduced(c) ==
  DiffTrees(TreeOf(commits, first_parent_of(commits, c)), commits[c].tree)

\* C1: after a successful operation the rewritten selected commit introduces
\* the selected commit's changes plus the amendment diff, and every rewritten
\* descendant introduces exactly what its original introduced.
C1_AmendedOnce ==
  Success =>
    /\ \E n \in Rewritten(commit_to_amend) :
         /\ commits[n].parents = commits[commit_to_amend].parents
         /\ commits[n].tree = Patch(diff, commits[commit_to_amend].tree)
    /\ \A p \in log.map :
         (p[1] # commit_to_amend /\ commit_to_amend \in Reach(commits, p[1]))
           => Introduced(p[2]) = Introduced(p[1])

\* the range handed to the rebase: everything reachable from the original tip
\* that is not reachable from the first parent of the selected commit
RewriteRange ==
  IF commit_to_amend = 0 THEN {}
  ELSE LET p == first_parent_of(commits, commit_to_amend)
       IN Reach(commits, OrigTip) \ (IF p = 0 THEN {} ELSE Reach(commits, p))

\* C2: after a successful operation every branch that pointed at a commit X of
\* the rewritten range points at the rewritten counterpart X' (the current
\* branch included, which pointed at the original tip).
C2_BranchesFollow ==
  Success =>
    \A b \in Branches :
      pre.refs[b] \in RewriteRange => refs[b] \in Rewritten(pre.refs[b])

\* C3: in every reachable state a branch whose target at invocation is outside
\* the rewritten range still has that target.
C3_OutsideUntouched ==
  \A b \in Branches : pre.refs[b] \notin RewriteRange => refs[b] = pre.refs[b]

\* C3 witness: a finished rewrite that retargeted a branch of the range while
\* a branch outside the range exists.
C3_Witness ==
  /\ Success
  /\ log.retargeted # {}
  /\ \E b \in Branches : pre.refs[b] > 0 /\ pre.refs[b] \notin RewriteRange

\* C4: after an abort every branch has the target it had when the rebase was
\* started.
C4_AbortRestoresRefs ==
  (pc = "done" /\ log.aborts > 0) => refs = log.start_refs

\* the stages of do_rebase: finding the parent, starting the rebase, building
\* the branch index, the first step, the later steps, finishing
RewriteStages == {"do_rebase", "apply_diff_in_rebase", "do_rebase_inner", "finish"}

\* C5: when the operation fails in do_rebase, after the amendment commit was
\* created, the current branch ends at the amendment commit.
C5_TipIsAmendment ==
  (Failure /\ log.fixup # 0 /\ err.at \in RewriteStages)
    => refs[pre.head] = log.fixup

\* C5 witness: a later step failed after commits had already been rewritten,
\* and the abort ran.
C5_Witness ==
  /\ Failure
  /\ err.at = "do_rebase_inner"
  /\ log.aborts = 1
  /\ log.map # {}
  /\ refs[pre.head] = log.fixup

\* C6: no execution returns an error while the rebase it started is still in
\* progress.
C6_AbortBeforeError ==
  (Failure /\ log.started) => ~rebase.active

\* C7: an operation that fails before the amendment commit exists leaves the
\* index, the refs and the set of commits as they were at invocation.
C7_EarlyFailureUntouched ==
  (Failure /\ log.fixup = 0)
    => index = pre.index /\ refs = pre.refs /\ Len(commits) = pre.n

\* C8: an execution that stashed the working-tree changes does not terminate
\* with them still in the stash.
C8_StashRestored ==
  (pc = "done" /\ log.stashed) => stash = <<>>

Elems(q) == {q[i] : i \in DOMAIN q}

\* C10: when the boundary is a proper ancestor of the tip, the commit range
\* of the walk does not contain the boundary and has at most max_commits
\* commits.
C10_RangeBounded ==
  (/\ walked.upstream.some
   /\ walked.upstream.commit \in Reach(commits, HeadCommit) \ {HeadCommit})
    => /\ walked.upstream.commit \notin Elems(walked.range)
       /\ Len(walked.range) <= walked.max_commits

\* C10 witness: a walk that the boundary, a proper ancestor of the tip, cut
\* short before max_commits commits were taken.
C10_Witness ==
  /\ walked.upstream.some
  /\ walked.upstream.commit \in Reach(commits, HeadCommit) \ {HeadCommit}
  /\ walked.range # <<>>
  /\ Len(walked.range) < walked.max_commits
  /\ Len(revwalk(commits, HeadCommit)) > Len(walked.range) + 1

StagedBefore == DiffTrees(commits[OrigTip].tree, pre.index)
UnstagedBefore == diff_index_to_workdir(pre.index, pre.workdir)

\* C9: with staged changes and unstaged edits of tracked files, a successful
\* operation folds the staged changes only (the amendment is the staged diff
\* and the amendment commit is the index), the same files show as unstaged
\* edits afterwards with the content they had, and the final tip does not
\* contain them.
C9_UnstagedKept ==
  (Success /\ StagedBefore # {} /\ UnstagedBefore # {})
    => /\ diff = StagedBefore
       /\ commits[log.fixup].tree = pre.index
       /\ DiffFiles(diff_index_to_workdir(index, workdir)) = DiffFiles(UnstagedBefore)
       /\ \A h \in DiffFiles(UnstagedBefore) :
            /\ workdir[h] = pre.workdir[h]
            /\ commits[refs[pre.head]].tree[h] = pre.index[h]

\* C9 witness: a successful operation that stashed unstaged edits, rewrote
\* the selected commit and a descendant, and popped the stash.
C9_Witness ==
  /\ Success
  /\ StagedBefore # {}
  /\ UnstagedBefore # {}
  /\ log.stashed
  /\ stash = <<>>
  /\ Cardinality(log.map) >= 2

\* ------------------------------------------------ selection, C11 and on
PatternSearched == walked.message_pattern # <<>> /\ walked.range # <<>>
Matches(c) ==
  /\ commits[c].msg.kind # "none"
  /\ \E i \in 1..Len(summary(commits[c].msg)) :
       \E j \in i..Len(summary(commits[c].msg)) :
         SubSeq(summary(commits[c].msg), i, j) = walked.message_pattern

\* C11: when a pattern was searched in a range (which has commits) and no
\* summary of the range contains it, the selection fails with PatternNotFound
\* naming the oldest and the newest commit of the range, no commit is
\* selected and the process exits with a non-zero code.
C11_PatternNotFound ==
  (PatternSearched /\ \A c \in Elems(walked.range) : ~Matches(c))
    => /\ pc = "done"
       /\ err.kind = "PatternNotFound"
       /\ err.first = walked.range[Len(walked.range)]
       /\ err.last = walked.range[1]
       /\ commit_to_amend = 0
       /\ exit_code(err) # 0

\* C11 witness: the pattern is found in no summary of the range although the
\* boundary commit, outside the range, matches it.
C11_Witness ==
  /\ PatternSearched
  /\ \A c \in Elems(walked.range) : ~Matches(c)
  /\ walked.upstream.some
  /\ Matches(walked.upstream.commit)
  /\ Len(walked.range) >= 2
  /\ err.kind = "PatternNotFound"

\* C12: in pattern mode the selected commit is the first commit of the range,
\* which is ordered newest first, whose summary contains the pattern; it is
\* determined by the range and the pattern, and no answer of the user is used.
C12_FirstMatch ==
  (PatternSearched /\ \E c \in Elems(walked.range) : Matches(c))
    => /\ pc = "do_fixup_commit"
       /\ err = NoErr
       /\ walked.selected = 0
       /\ \A i, j \in DOMAIN walked.range : i < j => walked.range[i] > walked.range[j]
       /\ \E i \in DOMAIN walked.range :
            /\ commit_to_amend = walked.range[i]
            /\ Matches(walked.range[i])
            /\ \A j \in 1..(i - 1) : ~Matches(walked.range[j])

\* C12 witness: the newest commit of the range does not match, and two older
\* commits of the range do.
C12_Witness ==
  /\ PatternSearched
  /\ ~Matches(walked.range[1])
  /\ Cardinality({c \in Elems(walked.range) : Matches(c)}) >= 2
  /\ pc = "do_fixup_commit"

\* ------------------------------------------------ boundary resolution
BoundaryResolved ==
  pc = "select_commit_to_amend" \/ (pc = "done" /\ err.at = "get_merge_base")
Trunks == <<"main", "master", "develop", "trunk">>
TrunkHere(i) == refs[Trunks[i]] # NoRef /\ \A j \in 1..(i - 1) : refs[Trunks[j]] = NoRef
Tracks == tracking # "" /\ refs[tracking] # NoRef

\* C13: the boundary candidate is the explicit upstream name when one is
\* given (RefNotFound when it does not resolve, whatever else exists), else
\* the first of main, master, develop, trunk that is a local branch, else the
\* configured upstream of the head branch, else there is no boundary.
C13_CandidatePriority ==
  BoundaryResolved =>
    LET n == walked.upstream_name
    IN /\ (n # "" /\ refs[n] = NoRef) => err.kind = "RefNotFound"
       /\ err.kind = "RefNotFound" => (n # "" /\ refs[n] = NoRef)
       /\ (n # "" /\ refs[n] # NoRef)
            => /\ err = NoErr
               /\ upstream.some
               /\ upstream.reference = ref_name(n)
       /\ \A i \in DOMAIN Trunks :
            (n = "" /\ TrunkHere(i))
              => /\ err = NoErr
                 /\ upstream.some
                 /\ upstream.reference = ref_name(Trunks[i])
       /\ (n = "" /\ (\A i \in DOMAIN Trunks : refs[Trunks[i]] = NoRef) /\ Tracks)
            => /\ err = NoErr
               /\ upstream.some
               /\ upstream.reference = ref_name(tracking)
       /\ (n = "" /\ (\A i \in DOMAIN Trunks : refs[Trunks[i]] = NoRef) /\ ~Tracks)
            => err = NoErr /\ ~upstream.some

\* C13 witness: no explicit name, master and develop both exist and the head
\* branch has a configured upstream: master is the candidate.
C13_Witness ==
  /\ BoundaryResolved
  /\ walked.upstream_name = ""
  /\ refs["main"] = NoRef
  /\ refs["master"] # NoRef
  /\ refs["develop"] # NoRef
  /\ Tracks
  /\ upstream.reference = ref_name("master")

Candidate == refs[walked.upstream.reference.name]
Boundary == walked.upstream.commit
CommonAncestors == Reach(commits, Candidate) \cap Reach(commits, HeadCommit)

\* C14: a boundary that was found is the merge-base of the candidate and the
\* head tip (a common ancestor of both that no other common ancestor
\* descends from), whichever branch the candidate is; no commit of the range
\* is the merge-base or an ancestor of it, and unless max_commits cut the walk
\* every commit of the head branch that descends from the merge-base is in
\* the range.
C14_MergeBaseBoundary ==
  walked.upstream.some =>
    /\ Boundary \in CommonAncestors
    /\ \A c \in CommonAncestors : Boundary \notin Reach(commits, c) \ {c}
    /\ Elems(walked.range) \cap Reach(commits, Boundary) = {}
    /\ Len(walked.range) < walked.max_commits
         => \A c \in Reach(commits, HeadCommit) :
              Boundary \in Reach(commits, c) \ {c} => c \in Elems(walked.range)

\* C14 witness: the candidate, develop, is not an ancestor of the head tip;
\* the boundary is their merge-base and a commit after it was selected.
C14_Witness ==
  /\ walked.upstream.some
  /\ walked.upstream.reference = ref_name("develop")
  /\ Candidate \notin Reach(commits, HeadCommit)
  /\ Boundary # Candidate
  /\ pc = "do_fixup_commit"
  /\ Boundary \in Reach(commits, commit_to_amend) \ {commit_to_amend}
  /\ Len(walked.range) >= 2

\* C15: when the boundary commit is the head tip and the boundary branch is
\* the current branch, the selection fails with NoDivergence.
C15_NoDivergence ==
  (/\ walked.upstream.some
   /\ Boundary = HeadCommit
   /\ walked.upstream.reference.name = head.sym)
    => pc = "done" /\ err.kind = "NoDivergence"

\* ------------------------------------------------- the configuration alone
InitConfig ==
  /\ \E par \in {LinearParents} : commits = MkCommits(par, GraphTrees(par))
  /\ refs = [b \in Branches |-> IF b = "changes" THEN MaxHist ELSE NoRef]
  /\ index = commits[MaxHist].tree
  /\ workdir = commits[MaxHist].tree
  /\ InitLocals
  /\ pc = "load_config"

\* config::load_config_from_args_env_git
load_config_from_args_env_git ==
  /\ pc = "load_config"
  /\ \E flags \in Flags, argv0 \in Argv0, env \in Env, git \in GitConfig :
       config' = Load(flags, argv0, env, git)
  /\ pc' = "done"
  /\ UNCHANGED <<repoVars, err, diff, upstream, commit_to_amend, needs_stash,
                 branches, pre, log, walked>>

NextConfig == load_config_from_args_env_git

SpecConfig == InitConfig /\ [][NextConfig]_vars

\* the value the precedence flag, environment, git configuration, default
\* gives
Precedence(flag, var, git, default) ==
  IF flag.some THEN flag.v
  ELSE IF var.some THEN var.v
  ELSE IF git.some THEN git.v
  ELSE default

BoolVar(name) ==
  IF config.env[name].some THEN Some(parse_bool(config.env[name].v).v) ELSE NoneBool
IntVar(name) ==
  IF config.env[name].some THEN Some(parse_usize(config.env[name].v).v) ELSE NoneInt

\* C21: every setting of the loaded Config is the flag's value when the flag
\* is given, else the environment variable's, else the git configuration's,
\* else the default (max_commits 15, require_newline false, squash false).
C21_Precedence ==
  config.stage = "loaded" =>
    /\ config.cfg.squash =
         Precedence(config.flags.squash, BoolVar(SQUASH_VAR), config.git.squash, FALSE)
    /\ config.cfg.max_commits =
         as_usize(Precedence(config.flags.max_commits, IntVar(MAX_COMMITS_VAR),
                             config.git.max_commits, 15))
    /\ config.cfg.default_upstream_branch =
         (IF config.flags.default_upstream_branch.some THEN config.flags.default_upstream_branch
          ELSE IF config.env[UPSTREAM_VAR].some THEN config.env[UPSTREAM_VAR]
          ELSE config.git.default_upstream_branch)
    /\ config.cfg.require_newline =
         Precedence(config.flags.require_newline, BoolVar(REQUIRE_NEWLINE_VAR),
                    config.git.require_newline, FALSE)
    /\ config.cfg.theme =
         Precedence(config.flags.theme, config.env[THEME_VAR], config.git.theme, DEFAULT_THEME)

\* ------------------------------------------------------- the diff builder
DiffBuilt == pc = "get_merge_base"

\* C16: when the diff between HEAD's tree and the index touches a file, the
\* diff builder returns exactly that diff without asking for a confirmation
\* and leaves the index as it was; changes that are only in the working tree
\* are not part of the amendment.
C16_StagedIsAmendment ==
  (StagedBefore # {} /\ pc # "create_diff")
    => /\ diff = StagedBefore
       /\ log.source = "staged"
       /\ ~log.asked
       /\ err.at # "create_diff"
       /\ DiffBuilt => index = pre.index
       /\ \A e \in diff : e.new = pre.index[e.file]

\* C16 witness: the diff was built from staged changes while another tracked
\* file had an unstaged edit.
C16_Witness ==
  /\ DiffBuilt
  /\ StagedBefore # {}
  /\ DiffFiles(UnstagedBefore) \ DiffFiles(StagedBefore) # {}
  /\ diff = StagedBefore

\* C17: when nothing is staged and the working tree has changes, the diff is
\* built only after an affirmative confirmation; every other outcome of the
\* confirmation is an error with an empty message that leaves the index as it
\* was and creates no commit.
C17_ConfirmOrSilent ==
  (StagedBefore = {} /\ UnstagedBefore # {} /\ pc # "create_diff")
    => /\ log.asked
       /\ \/ log.source = "worktree" /\ err.at # "create_diff"
          \/ /\ pc = "done"
             /\ err.at = "create_diff"
             /\ message(err.kind) = ""
             /\ index = pre.index
             /\ Len(commits) = pre.n

\* C18: with nothing staged and no change to a tracked file in the working
\* tree the operation fails with NothingToAmend; no commit is created, no ref
\* is moved and the index is unchanged.
C18_NothingToAmend ==
  (StagedBefore = {} /\ UnstagedBefore = {} /\ pc # "create_diff")
    => /\ pc = "done"
       /\ err.kind = "NothingToAmend"
       /\ err.at = "create_diff"
       /\ ~log.asked
       /\ Len(commits) = pre.n
       /\ refs = pre.refs
       /\ index = pre.index

\* C18 witness: the operation ended with NothingToAmend on a clean repository.
C18_Witness ==
  /\ pc = "done"
  /\ err.kind = "NothingToAmend"
  /\ StagedBefore = {}
  /\ UnstagedBefore = {}

\* ------------------------------------------------------ the process exit
Exited == pc = "done"

\* C19: a successful run exits 0; every failed run exits non-zero; a failure
\* whose message is not empty prints it; a declined confirmation reaches the
\* top level with an empty message and exits non-zero without printing.
C19_ExitBehaviour ==
  Exited =>
    /\ err = NoErr => exit_code(err) = 0 /\ ~printed(err)
    /\ err # NoErr => exit_code(err) # 0
    /\ (err # NoErr /\ to_string(err) # "") => printed(err)
    /\ err.kind = "Declined" =>
         /\ to_string(err) = ""
         /\ exit_code(err) # 0
         /\ ~printed(err)

\* ------------------------------------------------- the shape of the rewrite
\* the commits of the current branch above the first parent of the selected
\* commit, after the operation
NewRange ==
  IF commit_to_amend = 0 THEN {}
  ELSE LET p == first_parent_of(commits, commit_to_amend)
       IN Reach(commits, refs[pre.head]) \ (IF p = 0 THEN {} ELSE Reach(commits, p))

\* the parents a rewritten counterpart of x is expected to have
MapsParents(x, n) ==
  /\ Len(commits[n].parents) = Len(commits[x].parents)
  /\ \A i \in DOMAIN commits[x].parents :
       LET q == commits[x].parents[i]
       IN IF q \in RewriteRange
          THEN commits[n].parents[i] \in Rewritten(q)
          ELSE commits[n].parents[i] = q

\* C20: after a successful operation the chain from the selected commit to
\* the branch tip has as many commits as before, each original commit of the
\* chain has one rewritten counterpart with the same message whose parents
\* are the counterparts of the original's parents, the rewritten selected
\* commit keeps the selected commit's parents, and the amendment commit is
\* not in the history of the branch.
C20_SameShape ==
  Success =>
    /\ Cardinality(NewRange) = Cardinality(RewriteRange)
    /\ \A x \in RewriteRange :
         \E n \in NewRange :
           /\ Rewritten(x) = {n}
           /\ commits[n].msg = commits[x].msg
           /\ MapsParents(x, n)
    /\ \A n \in Rewritten(commit_to_amend) :
         commits[n].parents = commits[commit_to_amend].parents
    /\ log.fixup \notin Reach(commits, refs[pre.head])
    /\ \A n \in NewRange : commits[n].msg.kind = "plain"

\* ------------------------------------- runs over histories with sentinels
\* the messages a commit of the history may carry besides its own: one that
\* does not decode, and the sentinels of earlier amendments
LeftoverMsgs ==
  {[kind |-> "none", n |-> 0]}
    \cup {[kind |-> k, n |-> n] : k \in {"fixup", "squash"}, n \in 2..(MaxHist - 1)}

InitMessages ==
  /\ \E k \in 3..MaxHist : \E m \in LeftoverMsgs \cup {PlainMsg(k)} :
       commits = [MkCommits(LinearParents, GraphTrees(LinearParents)) EXCEPT ![k].msg = m]
  /\ \E t \in {NoRef} \cup 2..MaxHist :
       refs = [b \in Branches |->
                 IF b = "changes" THEN MaxHist
                 ELSE IF b = "main" THEN 1
                 ELSE IF b = "topic" THEN t ELSE NoRef]
  /\ \E h \in Files : index = Toggle(commits[MaxHist].tree, h)
  /\ workdir \in Tracked(index)
  /\ \E argv0 \in Argv0 : InitLocalsWith(Load(NoFlags, argv0, NoEnv, NoGitConfig))
  /\ pc = "create_diff"

SpecMessages == InitMessages /\ [][Next]_vars

SquashRequested == config.stage = "loaded" /\ config.cfg.squash

\* C22: a run that was asked for a squash-style amendment does not end
\* successfully.
C22_SquashFailsLoudly ==
  SquashRequested => ~Success

\* ------------------------------------------------- the states of the engine
EngineState ==
  IF log.fixup = 0 THEN "NotStarted"
  ELSE IF ~log.started THEN "AmendmentCreated"
  ELSE IF rebase.active THEN "Rewriting"
  ELSE IF log.aborts > 0 THEN "Aborted"
  ELSE "Finished"

EngineMoves ==
  {<<"NotStarted", "AmendmentCreated">>, <<"AmendmentCreated", "Rewriting">>,
   <<"Rewriting", "Finished">>, <<"Rewriting", "Aborted">>}

AllStepsDone == rebase.cur + 1 >= Len(rebase.ops)

\* C23: the engine only moves NotStarted -> AmendmentCreated -> Rewriting ->
\* Finished or Aborted; finish runs only after every step; and a run that
\* fails once the rewrite has begun ends Aborted, with the cleanup executed
\* exactly once.
C23_EngineStates ==
  /\ [][EngineState' = EngineState \/ <<EngineState, EngineState'>> \in EngineMoves]_vars
  /\ [](pc = "finish" => AllStepsDone /\ err = NoErr)
  /\ [](log.aborts <= 1)
  /\ []((Failure /\ log.started /\ err.at # "stash_pop")
          => (log.aborts = 1 /\ EngineState = "Aborted"))

\* ------------------------------------------------- the order of the stages
\* the place of each stage in the order boundary resolution, selection, diff
\* building, amendment commit, engine
StageRank(at) ==
  CASE at = "get_merge_base" -> 1
    [] at = "select_commit_to_amend" -> 2
    [] at = "create_diff" -> 3
    [] at = "do_fixup_commit" -> 4
    [] OTHER -> 5

\* C24: the stages run in the order boundary resolution, commit selection,
\* diff building, amendment commit, engine; the diff is built, and the
\* working-tree changes staged, only after a commit has been selected.
C24_StageOrder ==
  /\ [][StageRank(pc') >= StageRank(pc)]_vars
  /\ [](log.source # "" => commit_to_amend # 0)
  /\ [](index # pre.index => commit_to_amend # 0)

\* ------------------------------------------------- retarget_branches alone
\* a rewrite in progress over the commits k..MaxHist of a straight history,
\* its cursor at any step, and the index of the branches made by for_repo
InitRetarget ==
  /\ commits = MkCommits(LinearParents, GraphTrees(LinearParents))
  /\ \E t, tw \in {NoRef} \cup 1..MaxHist :
       refs = [b \in Branches |->
                 IF b = "changes" THEN MaxHist
                 ELSE IF b = "main" THEN 1
                 ELSE IF b = "topic" THEN t
                 ELSE IF b = "twin" THEN tw ELSE NoRef]
  /\ \E k \in 2..MaxHist :
       LET ops == [i \in 1..(MaxHist - k + 1) |-> k + i - 1]
       IN \E cur \in 0..(Len(ops) - 1) :
            /\ rebase = [active |-> TRUE, ops |-> ops, kinds |-> [i \in DOMAIN ops |-> Pick],
                         cur |-> cur, orig_name |-> "changes", orig_id |-> MaxHist,
                         onto |-> k - 1]
            /\ head = [sym |-> "", id |-> ops[cur + 1]]
            /\ index = commits[ops[cur + 1]].tree
            /\ workdir = commits[ops[cur + 1]].tree
  /\ branches = for_repo(refs)
  /\ tracking = ""
  /\ conflicts = {}
  /\ stash = <<>>
  /\ err = NoErr
  /\ diff = {}
  /\ upstream = NoUpstream
  /\ commit_to_amend = 0
  /\ needs_stash = FALSE
  /\ log = [NoLog EXCEPT !.started = TRUE, !.start_refs = refs]
  /\ pre = [refs |-> refs, head |-> "changes", index |-> index, workdir |-> workdir,
            n |-> Len(commits)]
  /\ walked = NoWalk
  /\ config = NoConfig
  /\ pc = "retarget_branches"

\* RepoBranches::retarget_branches(original_commit, target_commit, rebase)
retarget ==
  /\ pc = "retarget_branches"
  /\ \E original_commit \in 1..MaxHist, target_commit \in 1..MaxHist :
       LET moved == retarget_branches(branches, original_commit, rebase.cur, Len(rebase.ops))
       IN /\ original_commit # target_commit
          /\ refs' = Retargeted(refs, moved, target_commit)
          /\ log' = [log EXCEPT !.map = {<<original_commit, target_commit>>},
                                !.retargeted = moved,
                                !.records = RetargetedBranch(moved, original_commit, target_commit)]
  /\ pc' = "done"
  /\ UNCHANGED <<commits, head, tracking, index, conflicts, workdir, stash, rebase,
                 err, diff, upstream, commit_to_amend, needs_stash, branches, pre,
                 walked, config>>

NextRetarget == retarget

SpecRetarget == InitRetarget /\ [][NextRetarget]_vars

LastStep == rebase.cur = Len(rebase.ops) - 1

StepTaken ==
  /\ pc = "do_rebase_inner"
  /\ pc' = "do_rebase_inner"
  /\ rebase'.cur = rebase.cur + 1

\* C26: a subsequent step whose commit message equals the sentinel message of
\* the amendment is not committed and moves no branch; every other step that
\* is a pick is committed once, as the counterpart of its commit, and the
\* branches of its commit are retargeted to the new commit.
C26_SentinelSkipped ==
  [][StepTaken =>
       LET commit == rebase.ops[rebase'.cur + 1]
           new == Len(commits) + 1
       IN IF commits[commit].msg = fixup_message
          THEN commits' = commits /\ refs' = refs /\ log'.map = log.map
          ELSE /\ Len(commits') = Len(commits) + 1
               /\ commits'[new].msg = commits[commit].msg
               /\ log'.map = log.map \cup {<<commit, new>>}
               /\ refs' = Retargeted(refs,
                                     retarget_branches(branches, commit, rebase'.cur,
                                                       Len(rebase.ops)),
                                     new)]_vars

\* ------------------------------------------- the kinds of the operations
\* the state do_rebase leaves when the rebase has started: the amendment
\* commit on the branch, HEAD detached at the first parent of the selected
\* commit k, and a rebase over k..amendment in which one operation may be
\* of any kind, or a rebase without any operation
InitOperations ==
  /\ \E k \in 2..MaxHist, h \in Files : \E len \in {0, MaxHist - k + 2} :
       LET cs == MkCommits(LinearParents, GraphTrees(LinearParents))
           tip == cs[MaxHist].tree
           fixup == [parents |-> <<MaxHist>>, tree |-> Toggle(tip, h),
                     msg |-> [kind |-> "fixup", n |-> k]]
           ops == [i \in 1..len |-> k + i - 1]
       IN /\ cs[k].tree[h] = tip[h]
          /\ commits = Append(cs, fixup)
          /\ diff = {[file |-> h, old |-> tip[h], new |-> 1 - tip[h]]}
          /\ commit_to_amend = k
          /\ \E p \in 0..len, kind \in OperationKinds :
               rebase = [active |-> TRUE, ops |-> ops,
                         kinds |-> [i \in DOMAIN ops |-> IF i = p THEN kind ELSE Pick],
                         cur |-> -1, orig_name |-> "changes", orig_id |-> MaxHist + 1,
                         onto |-> k - 1]
          /\ head = [sym |-> "", id |-> k - 1]
          /\ index = cs[k - 1].tree
          /\ workdir = cs[k - 1].tree
          /\ pre = [refs |-> [b \in Branches |->
                                IF b = "changes" THEN MaxHist
                                ELSE IF b = "main" THEN 1 ELSE NoRef],
                    head |-> "changes", index |-> Toggle(tip, h), workdir |-> Toggle(tip, h),
                    n |-> MaxHist]
  /\ \E t \in {NoRef} \cup 2..MaxHist :
       refs = [b \in Branches |->
                 IF b = "changes" THEN MaxHist + 1
                 ELSE IF b = "main" THEN 1
                 ELSE IF b = "topic" THEN t ELSE NoRef]
  /\ branches = for_repo(refs)
  /\ tracking = ""
  /\ conflicts = {}
  /\ stash = <<>>
  /\ err = NoErr
  /\ upstream = [some |-> TRUE, commit |-> 1, reference |-> ref_name("main")]
  /\ needs_stash = FALSE
  /\ log = [NoLog EXCEPT !.source = "staged", !.fixup = MaxHist + 1, !.started = TRUE,
                         !.start_refs = refs]
  /\ walked = NoWalk
  /\ config = NoConfig
  /\ pc = "apply_diff_in_rebase"

NextOperations ==
  \/ apply_diff_in_rebase
  \/ do_rebase_inner
  \/ finish
  \/ print_help_and_abort_rebase

SpecOperations == InitOperations /\ [][NextOperations]_vars

\* a step of the rewrite is taken on an operation that is not a pick
NonPickStep ==
  /\ pc \in {"apply_diff_in_rebase", "do_rebase_inner"}
  /\ ~AllStepsDone
  /\ rebase.kinds[rebase.cur + 2] # Pick

C28_FirstStepIsSelected ==
  /\ (pc = "apply_diff_in_rebase" /\ rebase.ops # <<>>)
       => rebase.ops[1] = commit_to_amend
  /\ (pc = "do_rebase_inner" /\ rebase.cur = 0)
       => log.map = {<<commit_to_amend, Len(commits)>>}

\* C29: a started rewrite without a first step fails with EmptyRebase and is
\* aborted; no commit is made and no branch is moved.
C29_EmptyRebase ==
  /\ (rebase.active /\ rebase.ops = <<>> /\ pc # "apply_diff_in_rebase")
       => pc = "abort" /\ err.kind = "EmptyRebase"
  /\ err.kind = "EmptyRebase"
       => /\ pc \in {"abort", "done"}
          /\ log.map = {}
          /\ Len(commits) = log.fixup
          /\ refs = log.start_refs
          /\ pc = "done" => log.aborts = 1 /\ ~rebase.active /\ head.sym = pre.head

\* C29 witness: the run ended with EmptyRebase after the abort.
C29_Witness ==
  /\ pc = "done"
  /\ err.kind = "EmptyRebase"
  /\ log.aborts = 1

\* ------------------------------------------- the two modes, one after the other
\* what a run leaves behind: for every branch the messages and trees of its
\* history, oldest first
RECURSIVE Chain(_, _)
Chain(cs, c) ==
  IF c <= 0 THEN <<>>
  ELSE Append(Chain(cs, first_parent_of(cs, c)), [msg |-> cs[c].msg, tree |-> cs[c].tree])

Outcome == [b \in Branches |-> Chain(commits, refs[b])]

OtherName(argv0) == IF ends_with_squash(argv0) THEN "git-instafix" ELSE "git-squash"

\* a second invocation of instafix, in the other mode, on the repository as
\* it was before the first one
run_again ==
  /\ Success
  /\ log.run = 1
  /\ commits' = SubSeq(commits, 1, pre.n)
  /\ refs' = pre.refs
  /\ head' = [sym |-> pre.head, id |-> 0]
  /\ index' = pre.index
  /\ workdir' = pre.workdir
  /\ conflicts' = {}
  /\ stash' = <<>>
  /\ rebase' = NoRebase
  /\ err' = NoErr
  /\ diff' = {}
  /\ upstream' = NoUpstream
  /\ commit_to_amend' = 0
  /\ needs_stash' = FALSE
  /\ branches' = <<>>
  /\ log' = [NoLog EXCEPT !.run = 2,
                          !.first = [Outcome |-> Outcome, commit_to_amend |-> commit_to_amend]]
  /\ config' = Load(NoFlags, OtherName(config.argv0), NoEnv, NoGitConfig)
  /\ pc' = "create_diff"
  /\ UNCHANGED <<tracking, pre, walked>>

NextBothModes == Next \/ run_again

SpecBothModes == InitMessages /\ [][NextBothModes]_vars

\* C30: a fixup-style and a squash-style run on the same repository with the
\* same commit selected leave the same commit trees, commit messages and
\* branch targets.
C30_ModesAgree ==
  (Success /\ log.run = 2 /\ commit_to_amend = log.first.commit_to_amend)
    => Outcome = log.first.Outcome

\* ------------------------------------------------------------ empty range
SelectionRan ==
  pc = "do_fixup_commit" \/ (pc = "done" /\ err.at = "select_commit_to_amend")

\* C31: whenever the walk of a selection produced no commit, with a boundary
\* or without one, the selection fails with the EmptyRange error naming the
\* head commit and the boundary (0 when there is none); it does not crash and
\* no commit is selected.
C31_EmptyRange ==
  (SelectionRan /\ walked.range = <<>>)
    => /\ pc = "done"
       /\ err.kind = "EmptyRange"
       /\ err.first = HeadCommit
       /\ err.last = (IF walked.upstream.some THEN walked.upstream.commit ELSE 0)
       /\ commit_to_amend = 0

\* C31, with a boundary only
C31_EmptyRangeBounded ==
  (SelectionRan /\ walked.range = <<>> /\ walked.upstream.some)
    => /\ pc = "done"
       /\ err.kind = "EmptyRange"
       /\ err.first = HeadCommit
       /\ err.last = walked.upstream.commit
       /\ commit_to_amend = 0

\* the walk of the head, and the place of the boundary in it
Walk == revwalk(commits, HeadCommit)
\* take(max_commits) ends the walk before the boundary, which is the commit at
\* place `at` of the walk, is looked at
Exhausted ==
  LET at == CHOOSE i \in 1..(Len(Walk) + 1) :
              /\ i <= Len(Walk) => Walk[i] = walked.upstream.commit
              /\ \A j \in 1..(i - 1) : Walk[j] # walked.upstream.commit
  IN /\ walked.upstream.some
     /\ at <= Len(Walk)
     /\ at - 1 >= walked.max_commits

\* C32 as stated: the range of a walk is empty when the tip is the boundary,
\* and empty when max_commits commits were taken before the boundary was
\* found.
C32_EmptyIfExhausted ==
  pc = "done"
    => /\ (walked.upstream.some /\ walked.upstream.commit = HeadCommit)
            => walked.range = <<>>
       /\ Exhausted => walked.range = <<>>

\* C32, amended: the range of a walk is empty when the tip is the boundary;
\* when max_commits commits were taken before the boundary was found, the
\* range is the max_commits newest commits of the walk, so it is empty only
\* for max_commits = 0.
C32_EmptyOrTruncated ==
  pc = "done"
    => /\ (walked.upstream.some /\ walked.upstream.commit = HeadCommit)
            => walked.range = <<>>
       /\ Exhausted => /\ Len(walked.range) = walked.max_commits
                       /\ \A i \in DOMAIN walked.range : walked.range[i] = Walk[i]

\* C32 witness: two commits were taken and the boundary, an older ancestor of
\* the tip, was not reached.
C32_Witness ==
  /\ pc = "done"
  /\ Exhausted
  /\ walked.max_commits = 2
  /\ walked.upstream.commit \notin {Walk[1], Walk[2], Walk[3]}
  /\ Len(walked.range) = 2

\* C33 as stated: every commit of the range of a walk is a strict
\* ancestor of the tip, never the tip, and a descendant of the boundary or the
\* boundary itself.
C33_StrictAncestors ==
  pc = "done"
    => \A c \in Elems(walked.range) :
         /\ c \in Reach(commits, HeadCommit) \ {HeadCommit}
         /\ walked.upstream.some => walked.upstream.commit \in Reach(commits, c)

\* C33, amended: every commit of the range of a walk is the tip or an
\* ancestor of it, and the tip is the first commit of a range that is not
\* empty; with a boundary that is an ancestor of the tip, as a merge base is,
\* no commit of the range is the boundary or an ancestor of it, and when no
\* commit reachable from the tip is a merge, every commit of the range is a
\* strict descendant of the boundary.
C33_RangeFromTip ==
  pc = "done"
    => /\ \A c \in Elems(walked.range) :
            /\ c \in Reach(commits, HeadCommit)
            /\ (/\ walked.upstream.some
                /\ walked.upstream.commit \in Reach(commits, HeadCommit))
                 => /\ c \notin Reach(commits, walked.upstream.commit)
                    /\ (\A a \in Reach(commits, HeadCommit) : Len(commits[a].parents) <= 1)
                         => walked.upstream.commit \in Reach(commits, c)
       /\ walked.range # <<>> => walked.range[1] = HeadCommit

\* C33 witness: a range from the tip down to a boundary that is an ancestor of
\* the tip, with a commit that is not a descendant of the boundary.
C33_Witness ==
  /\ pc = "done"
  /\ walked.upstream.some
  /\ walked.upstream.commit \in Reach(commits, HeadCommit)
  /\ Len(walked.range) >= 2
  /\ walked.range[1] = HeadCommit
  /\ \E c \in Elems(walked.range) : walked.upstream.commit \notin Reach(commits, c)

\* ------------------------------------------------------- the branch index
\* C34: when the rebase has been started in a repository with a local branch
\* that resolves to no commit, the branch index is built from the other
\* branches and the run does not fail at building it.
C34_UnresolvableSkipped ==
  (log.started /\ \E b \in Branches : log.start_refs[b] = BadRef)
    => /\ err.at # "do_rebase"
       /\ branches =
            for_repo([b \in Branches |-> IF log.start_refs[b] = BadRef THEN NoRef
                                         ELSE log.start_refs[b]])

\* C35: when the rebase has been started in a repository with a local branch
\* whose name is not valid UTF-8, the run has failed with NameEncodingError at
\* the building of the branch index, no commit is rewritten and no branch is
\* retargeted.
C35_NameCheckedFirst ==
  (log.started /\ \E b \in Branches : log.start_refs[b] # NoRef /\ ~branch_name(b).some)
    => /\ pc = "done"
       /\ err.kind = "NameEncodingError"
       /\ err.at = "do_rebase"
       /\ log.map = {}
       /\ log.retargeted = {}

\* ------------------------------------------------ the interactive choice
\* the prompt of a selection without a pattern was shown
Prompted ==
  /\ walked.range # <<>>
  /\ \/ pc \in {"do_fixup_commit", "worktree_is_dirty"}
     \/ pc = "done" /\ err.at \in {"select_commit_to_amend", "do_fixup_commit"}

\* C36: when the list of an interactive selection was shown, it is ordered
\* newest first from the tip; Enter without a key press selects the newest
\* commit; an answered prompt selects the commit of the entry the cursor was
\* on; a cancelled prompt is a failure of the selection with no commit
\* selected, and no commit is made after it.
C36_InteractiveChoice ==
  Prompted
    => /\ \A i, j \in DOMAIN walked.range : i < j => walked.range[i] > walked.range[j]
       /\ walked.range[1] = pre.refs[pre.head]
       /\ walked.keys = 0 => commit_to_amend = walked.range[1]
       /\ walked.keys >= 0
            => /\ commit_to_amend = walked.range[(walked.keys % Len(walked.range)) + 1]
               /\ err.at # "select_commit_to_amend"
       /\ walked.keys < 0
            => /\ pc = "done"
               /\ err.kind = "InteractionCancelled"
               /\ err.at = "select_commit_to_amend"
               /\ commit_to_amend = 0
               /\ Len(commits) = pre.n
               /\ refs = pre.refs

\* C36 witness: the third entry of a list of three was chosen and the
\* amendment commit for it was made.
C36_Witness ==
  /\ Prompted
  /\ Len(walked.range) = 3
  /\ walked.keys = 2
  /\ commit_to_amend = walked.range[3]
  /\ pc = "worktree_is_dirty"
  /\ Len(commits) = pre.n + 1

\* ------------------------------------------------------ the current branch
\* C37: the branch index is built with the current branch under the
\* amendment commit; while the rebase is in progress the current branch
\* targets the amendment commit; once the rebase has been started the only
\* step that moves the current branch is finish, which moves it from the
\* amendment commit to the last rewritten commit and ends the rebase.
C37_CurrentBranch ==
  /\ [](branches # <<>>
          => log.fixup \in DOMAIN branches /\ pre.head \in branches[log.fixup])
  /\ [](rebase.active => rebase.orig_name = pre.head /\ refs[pre.head] = log.fixup)
  /\ [][(log.started /\ refs'[pre.head] # refs[pre.head])
          => /\ pc = "finish"
             /\ refs[pre.head] = log.fixup
             /\ refs'[pre.head] = HeadCommit
             /\ HeadCommit \in {m[2] : m \in log.map}
             /\ ~rebase'.active]_vars

\* C37 witness: a finished run in which another branch was retargeted during
\* the rewrite and the current branch is on a rewritten commit.
C37_Witness ==
  /\ Success
  /\ log.retargeted # {}
  /\ refs[pre.head] # log.fixup
  /\ refs[pre.head] \in {m[2] : m \in log.map}

\* ------------------------------------------------- what a rewrite replays
\* C38: after a successful operation the amendment commit has no rewritten
\* counterpart, and every commit of the rewrite range, whatever its message,
\* has a counterpart in the history of the final tip.
C38_OnlyAmendmentDropped ==
  Success
    => /\ Rewritten(log.fixup) = {}
       /\ \A c \in RewriteRange :
            \E n \in Rewritten(c) : n \in Reach(commits, refs[pre.head])

\* C39: after a successful operation the tree of the final tip of the current
\* branch is the tree of the amendment commit, which is the tree of the
\* original tip with the amendment applied.
C39_ContentKept ==
  Success
    => /\ commits[log.fixup].tree = Patch(diff, commits[OrigTip].tree)
       /\ commits[refs[pre.head]].tree = commits[log.fixup].tree

\* ------------------------------------------------------------ termination
\* C40: during a rebase the cursor moves by one step at a time and stays
\* within the operations, no commit gets more than one rewritten counterpart
\* and no operation is listed twice, and a rewrite that was started ends
\* Finished or Aborted.
C40_Terminates ==
  /\ [][(rebase.active /\ rebase'.active /\ rebase'.cur # rebase.cur)
          => rebase'.cur = rebase.cur + 1]_vars
  /\ [](rebase.active /\ rebase.ops # <<>> => rebase.cur + 1 <= Len(rebase.ops))
  /\ [](\A i, j \in DOMAIN rebase.ops : rebase.ops[i] = rebase.ops[j] => i = j)
  /\ [](\A x \in 1..Len(commits) : Cardinality(Rewritten(x)) <= 1)
  /\ (log.started ~> EngineState \in {"Finished", "Aborted"})

====
